---------------------------- MODULE Spec2Model ----------------------------
(***************************************************************************)
(* A model of the YaMDb API: the sign-up / token flow and the review and   *)
(* comment endpoints of api_yamdb/api/views.py, and the CSV importer of    *)
(* api_yamdb/api/management/commands/import_csv.py.                        *)
(*                                                                         *)
(* Three specifications share the variables: SpecAuth (sign-up, token      *)
(* exchange, profile patch, the clock), SpecReviews (review and comment    *)
(* CRUD behind the permission class) and SpecImport (the import command).  *)
(***************************************************************************)
EXTENDS Integers, Sequences, FiniteSets, TLC

VARIABLES
    users,        \* the User table: records [id, username, email, role, is_superuser]
    nextUid,      \* the next auto-increment id of the User table
    now,          \* the clock, in units of the confirmation code's timestamp
    outbox,       \* the mails sent by send_mail: [to, username, code]
    changedSince, \* history: the codes whose user's email was changed after the code was issued
    titles,       \* the ids of the Title table
    reviews,      \* the Review table: records [id, title, author, score]
    comments,     \* the Comment table: records [id, review, author, text]
    nextRid,      \* the next auto-increment id of the Review table
    nextCid,      \* the next auto-increment id of the Comment table
    fs,           \* the CSV files under CSV_ROOT: file name -> [header, rows]
    argv,         \* options["csv_file"] of the import command
    pc,           \* the position in the list of files of the file imported next
    phase,        \* of the import command: "running", "done" or "failed"
    err,          \* the exception the import command ended with, or "" for none
    imported,     \* the files reported as 'Successfully imported', in order
    db,           \* the tables the importer writes: model name -> set of rows
    col,          \* one header column and what the importer makes of it
    resp          \* the last request and its response

authVars == <<users, nextUid, now, outbox, changedSince>>
reviewVars == <<titles, reviews, comments, nextRid, nextCid>>
importVars == <<fs, argv, pc, phase, err, imported, db, col>>
vars == <<users, nextUid, now, outbox, changedSince,
          titles, reviews, comments, nextRid, nextCid,
          fs, argv, pc, phase, err, imported, db, col, resp>>

NoResp == [op |-> "none"]

(***************************************************************************)
(* Bounds.                                                                 *)
(***************************************************************************)
MaxUsers == 2
MaxTime == 3
MaxMail == 1
MaxReviews == 2
MaxComments == 1
MaxRows == 2

(***************************************************************************)
(* The CSV importer. Column names are sequences of characters, so that the *)
(* importer's test ("_id" in field) and its slice (field[:-3]) are         *)
(* computed on the characters.                                             *)
(***************************************************************************)
S_id == <<"i", "d">>
S_author == <<"a", "u", "t", "h", "o", "r">>
S_review == <<"r", "e", "v", "i", "e", "w">>
S_title == <<"t", "i", "t", "l", "e">>
S_category == <<"c", "a", "t", "e", "g", "o", "r", "y">>
S_genre == <<"g", "e", "n", "r", "e">>
S_name == <<"n", "a", "m", "e">>
S_score == <<"s", "c", "o", "r", "e">>
S__id == <<"_", "i", "d">>

FILE_MODEL ==
    [f \in {"users.csv", "category.csv", "genre.csv", "titles.csv", "review.csv",
            "comments.csv"} |->
        CASE f = "users.csv" -> "User"
          [] f = "category.csv" -> "Category"
          [] f = "genre.csv" -> "Genre"
          [] f = "titles.csv" -> "Title"
          [] f = "review.csv" -> "Review"
          [] f = "comments.csv" -> "Comment"]

\* The order of FILE_MODEL.items(): the order the dict literal is written in.
FILE_MODEL_items ==
    <<"users.csv", "category.csv", "genre.csv", "titles.csv", "review.csv", "comments.csv">>

FK_FIELDS == {S_author, S_review, S_title, S_category, S_genre}

\* sub in s, of two strings.
Contains(sub, s) ==
    \E i \in 1..(Len(s) - Len(sub) + 1) : SubSeq(s, i, i + Len(sub) - 1) = sub

\* A faulty variant of the importer's renaming: only a name ending in "_id" loses it.
KwargKey_EndsWith(field) ==
    IF Len(field) >= 3 /\ SubSeq(field, Len(field) - 2, Len(field)) = S__id
    THEN SubSeq(field, 1, Len(field) - 3)
    ELSE field

\* The name the importer files a column under: if "_id" in field: field = field[:-3].
KwargKey(field) ==
    IF Contains(S__id, field) THEN SubSeq(field, 1, Len(field) - 3) ELSE field

\* if field in FK_FIELDS, of the renamed column.
IsForeignKey(key) == key \in FK_FIELDS

\* model._meta.get_field(field).remote_field.model: the table a foreign key of a
\* model refers to, "" when the model has no such foreign key.
RemoteModel(model, key) ==
    CASE model = "Title" /\ key = S_category -> "Category"
      [] model = "Title" /\ key = S_genre -> "Genre"
      [] model = "Review" /\ key = S_title -> "Title"
      [] model = "Review" /\ key = S_author -> "User"
      [] model = "Comment" /\ key = S_review -> "Review"
      [] model = "Comment" /\ key = S_author -> "User"
      [] OTHER -> ""

Raw(value) == <<"raw", value>>
Obj(model, id) == <<"obj", model, id>>

\* fk_model.objects.get(id=value) finds a row.
Exists(model, id) == \E row \in db[model] : row[S_id] = Raw(id)

\* The exception building the kwargs of one row raises, "" for none.
RowError(model, header, row) ==
    LET bad(i) == IsForeignKey(KwargKey(header[i]))
                  /\ (RemoteModel(model, KwargKey(header[i])) = ""
                      \/ ~Exists(RemoteModel(model, KwargKey(header[i])), row[i]))
    IN  IF \E i \in 1..Len(header) : bad(i)
        THEN LET i == CHOOSE j \in 1..Len(header) :
                          bad(j) /\ \A k \in 1..(j - 1) : ~bad(k)
             IN  IF RemoteModel(model, KwargKey(header[i])) = ""
                 THEN "FieldDoesNotExist"
                 ELSE "DoesNotExist"
        ELSE ""

\* The kwargs of one row: for each column, the related object or the value.
RowKwargs(model, header, row) ==
    [key \in {KwargKey(header[i]) : i \in 1..Len(header)} |->
        LET i == CHOOSE j \in 1..Len(header) :
                      /\ KwargKey(header[j]) = key
                      /\ \A k \in (j + 1)..Len(header) : KwargKey(header[k]) # key
        IN  IF IsForeignKey(key)
            THEN Obj(RemoteModel(model, key), row[i])
            ELSE Raw(row[i])]

\* model.objects.bulk_create(models): one statement, refused as a whole when an id
\* is taken or repeated.
BulkCreateError(model, rows) ==
    \/ \E i \in 1..Len(rows) : \E old \in db[model] : old[S_id] = rows[i][S_id]
    \/ \E i, j \in 1..Len(rows) : i # j /\ rows[i][S_id] = rows[j][S_id]

\* The position of the first row whose kwargs cannot be built, 0 for none.
FirstBadRow(model, file) ==
    LET bad == {i \in 1..Len(file.rows) : RowError(model, file.header, file.rows[i]) # ""}
    IN  IF bad = {} THEN 0 ELSE CHOOSE i \in bad : \A j \in bad : i <= j

\* A faulty variant of importer: each row is saved as soon as it is built.
importer_row_by_row(csv_file, model) ==
    LET file == fs[csv_file]
        k == FirstBadRow(model, file)
        built == [i \in 1..(IF k = 0 THEN Len(file.rows) ELSE k - 1) |->
                     RowKwargs(model, file.header, file.rows[i])]
    IN  IF BulkCreateError(model, built)
        THEN [err |-> "IntegrityError", rows |-> {}]
        ELSE [err |-> IF k = 0 THEN "" ELSE RowError(model, file.header, file.rows[k]),
              rows |-> {built[i] : i \in 1..Len(built)}]

\* importer(csv_file, model): build every row's kwargs, then bulk_create them. The
\* result is the exception raised ("" for none) and the rows committed.
importer(csv_file, model) ==
    LET file == fs[csv_file]
        k == FirstBadRow(model, file)
        built == [i \in 1..Len(file.rows) |-> RowKwargs(model, file.header, file.rows[i])]
    IN  IF k # 0
        THEN [err |-> RowError(model, file.header, file.rows[k]), rows |-> {}]
        ELSE IF BulkCreateError(model, built)
        THEN [err |-> "IntegrityError", rows |-> {}]
        ELSE [err |-> "", rows |-> {built[i] : i \in 1..Len(built)}]

\* The files Command.handle goes through: the ones named, or all registered ones.
Files == IF argv # <<>> THEN argv ELSE FILE_MODEL_items

\* A faulty variant of Command.handle: a file that fails is skipped and the loop goes on.
HandleFile_KeepGoing ==
    /\ phase = "running"
    /\ LET csv_file == Files[pc]
           known == csv_file \in DOMAIN FILE_MODEL
           done == IF known THEN importer(csv_file, FILE_MODEL[csv_file])
                   ELSE [err |-> "KeyError", rows |-> {}]
       IN  /\ db' = IF known
                    THEN [db EXCEPT ![FILE_MODEL[csv_file]] = @ \cup done.rows]
                    ELSE db
           /\ imported' = IF done.err = "" THEN Append(imported, csv_file) ELSE imported
           /\ err' = done.err
           /\ phase' = IF pc = Len(Files) THEN "done" ELSE "running"
           /\ pc' = pc + 1
    /\ UNCHANGED <<fs, argv, col>>
    /\ resp' = NoResp

\* One turn of the loop of Command.handle: the next file is checked against
\* FILE_MODEL when it was named on the command line, and imported; an exception
\* ends the command.
HandleFile ==
    /\ phase = "running"
    /\ LET csv_file == Files[pc]
       IN  IF argv # <<>> /\ csv_file \notin DOMAIN FILE_MODEL
           THEN /\ phase' = "failed"
                /\ err' = "KeyError"
                /\ UNCHANGED <<db, imported, pc>>
           ELSE LET done == importer(csv_file, FILE_MODEL[csv_file])
                IN  /\ db' = [db EXCEPT ![FILE_MODEL[csv_file]] = @ \cup done.rows]
                    /\ err' = done.err
                    /\ IF done.err # ""
                       THEN /\ phase' = "failed"
                            /\ UNCHANGED <<imported, pc>>
                       ELSE /\ imported' = Append(imported, csv_file)
                            /\ pc' = pc + 1
                            /\ phase' = IF pc = Len(Files) THEN "done" ELSE "running"
    /\ UNCHANGED <<fs, argv, col>>
    /\ resp' = NoResp

Models == {"User", "Category", "Genre", "Title", "Review", "Comment"}

\* The ids a foreign-key column holds: 1 is the id of the one row of each table
\* that has rows, 9 is the id of no row.
FkValues == {1, 9}

\* A file whose rows are numbered from 1 and hold the given foreign keys.
CsvFile(header, fks) ==
    [header |-> <<S_id>> \o header,
     rows |-> [i \in 1..Len(fks) |-> <<i>> \o fks[i]]]

RowLists(n) == UNION {[1..m -> [1..n -> FkValues]] : m \in 1..MaxRows}

\* The command lines: no file name, one, all in order, an unregistered name in the
\* middle, a file before the one it refers to, the same file twice.
ArgLists ==
    {<<>>,
     <<"review.csv">>,
     <<"users.csv", "category.csv", "titles.csv", "review.csv", "comments.csv">>,
     <<"users.csv", "bogus.csv", "category.csv">>,
     <<"users.csv", "titles.csv", "category.csv">>,
     <<"users.csv", "users.csv", "genre.csv">>}

NoColumn == [field |-> <<>>, value |-> 0, applied |-> FALSE, key |-> <<>>, fk |-> FALSE,
             passed |-> 0]

\* The state of the specifications that run no import.
NoImport ==
    /\ fs = <<>>
    /\ argv = <<>>
    /\ pc = 1
    /\ phase = "done"
    /\ err = ""
    /\ imported = <<>>
    /\ db = [m \in Models |-> {}]
    /\ col = NoColumn

NoRequests ==
    /\ users = {}
    /\ nextUid = 1
    /\ now = 0
    /\ outbox = {}
    /\ changedSince = {}
    /\ titles = {} /\ reviews = {} /\ comments = {}
    /\ nextRid = 1 /\ nextCid = 1
    /\ resp = NoResp

\* SpecImport: the import command on an empty database.
InitImport ==
    /\ NoRequests
    /\ \E t \in FkValues, c \in FkValues, rs \in RowLists(2) :
           fs = [f \in DOMAIN FILE_MODEL |->
                    CASE f = "titles.csv" -> CsvFile(<<S_category>>, <<<<t>>>>)
                      [] f = "review.csv" -> CsvFile(<<S_title \o S__id, S_author>>, rs)
                      [] f = "comments.csv" ->
                             CsvFile(<<S_review \o S__id, S_author>>, <<<<c, 1>>>>)
                      [] OTHER -> CsvFile(<<>>, <<<<>>>>)]
    /\ argv \in ArgLists
    /\ pc = 1
    /\ phase = "running"
    /\ err = ""
    /\ imported = <<>>
    /\ db = [m \in Models |-> {}]
    /\ col = NoColumn

NextImport == HandleFile /\ UNCHANGED <<authVars, reviewVars>>

SpecImport == InitImport /\ [][NextImport]_vars

\* SpecColumns: the importer's treatment of one header column.
Stems == {S_author, S_review, S_title, S_category, S_genre, S_name, S_score}
Tails == {<<>>, S__id, S__id \o <<"s">>, S__id \o S__id, <<"_", "i">>}
ColumnNames == {stem \o tail : stem \in Stems, tail \in Tails}

\* The loop body of importer on one column of a row: the renamed column, whether its
\* value is looked up as an id, and the value handed on (the id looked up, or the
\* value as it is).
ApplyColumn ==
    /\ ~col.applied
    /\ col' = [col EXCEPT !.applied = TRUE,
                          !.key = KwargKey(col.field),
                          !.fk = IsForeignKey(KwargKey(col.field)),
                          !.passed = col.value]
    /\ UNCHANGED <<fs, argv, pc, phase, err, imported, db>>
    /\ resp' = NoResp

InitColumns ==
    /\ NoRequests
    /\ fs = <<>>
    /\ argv = <<>>
    /\ pc = 1
    /\ phase = "done"
    /\ err = ""
    /\ imported = <<>>
    /\ db = [m \in Models |-> {}]
    /\ \E field \in ColumnNames, value \in FkValues :
           col = [NoColumn EXCEPT !.field = field, !.value = value]

NextColumns == ApplyColumn /\ UNCHANGED <<authVars, reviewVars>>

SpecColumns == InitColumns /\ [][NextColumns]_vars

(***************************************************************************)
(* The sign-up and token flow.                                             *)
(***************************************************************************)
Usernames == {"me", "al", "bo"}
Emails == {"x@ya", "y@ya"}

\* Django's PASSWORD_RESET_TIMEOUT, in clock units: check_token refuses a code
\* older than this.
PASSWORD_RESET_TIMEOUT == 1

\* A code that is no output of make_token (check_token cannot parse or verify it).
Garbage == [uid |-> 0, email |-> "", ts |-> 0]

NewUser(id, username, email) ==
    [id |-> id, username |-> username, email |-> email,
     role |-> "user", is_superuser |-> FALSE]

\* PasswordResetTokenGenerator().make_token(user): the timestamp and a keyed hash of
\* (user.pk, user.password, user.last_login, timestamp, user.email). No request of
\* this API sets a password or a last_login, so the hash is determined by pk, email
\* and timestamp; the keyed hash is modelled as the tuple it hashes.
make_token(user) == [uid |-> user.id, email |-> user.email, ts |-> now]

\* A faulty variant of check_token: the hash does not cover the email.
check_token_no_email(user, code) ==
    /\ code # Garbage
    /\ code.uid = user.id
    /\ now - code.ts <= PASSWORD_RESET_TIMEOUT

\* PasswordResetTokenGenerator().check_token(user, code): recomputes the hash from
\* the user's current fields and the code's timestamp, then checks the age.
check_token(user, code) ==
    /\ code # Garbage
    /\ code.uid = user.id
    /\ code.email = user.email
    /\ now - code.ts <= PASSWORD_RESET_TIMEOUT

\* GetCodeSerializer(data).is_valid(): the reserved username is refused.
GetCodeSerializerValid(username, email) == username # "me"

\* SignUpSerializer(data).is_valid(): the reserved username is refused, and the
\* username and the email must each be unused.
SignUpSerializerValid(username, email) ==
    /\ username # "me"
    /\ \A u \in users : u.username # username /\ u.email # email

\* send_mail(..., [user.email]) of the code made for user.
SendCode(user, username) ==
    LET mail == [to |-> user.email, username |-> username, code |-> make_token(user)]
    IN  /\ mail \in outbox \/ Cardinality(outbox) < MaxMail
        /\ outbox' = outbox \cup {mail}

SignUpResp(username, email, status) ==
    [op |-> "signup", username |-> username, email |-> email, status |-> status]

\* SignUpView.post from the lookup on: fetch the user with exactly this
\* (username, email), else validate and create one; then mail a code.
SignUpFetchOrCreate(username, email) ==
    LET found == {u \in users : u.username = username /\ u.email = email}
    IN  IF found # {}
        THEN /\ SendCode(CHOOSE u \in found : TRUE, username)
             /\ resp' = SignUpResp(username, email, 200)
             /\ UNCHANGED <<users, nextUid, now, changedSince>>
        ELSE IF ~SignUpSerializerValid(username, email)
        THEN /\ resp' = SignUpResp(username, email, 400)
             /\ UNCHANGED authVars
        ELSE /\ nextUid <= MaxUsers
             /\ users' = users \cup {NewUser(nextUid, username, email)}
             /\ nextUid' = nextUid + 1
             /\ SendCode(NewUser(nextUid, username, email), username)
             /\ resp' = SignUpResp(username, email, 200)
             /\ UNCHANGED <<now, changedSince>>

\* A faulty variant of SignUpView.post: the first validation is skipped.
SignUpPost_NoPrecheck(username, email) == SignUpFetchOrCreate(username, email)

\* A faulty variant of SignUpView.post: no lookup, every valid request creates.
SignUpPost_AlwaysCreate(username, email) ==
    IF ~SignUpSerializerValid(username, email)
    THEN /\ resp' = SignUpResp(username, email, 400)
         /\ UNCHANGED authVars
    ELSE /\ nextUid <= MaxUsers
         /\ users' = users \cup {NewUser(nextUid, username, email)}
         /\ nextUid' = nextUid + 1
         /\ SendCode(NewUser(nextUid, username, email), username)
         /\ resp' = SignUpResp(username, email, 200)
         /\ UNCHANGED <<now, changedSince>>

\* SignUpView.post.
SignUpPost(username, email) ==
    IF ~GetCodeSerializerValid(username, email)
    THEN /\ resp' = SignUpResp(username, email, 400)
         /\ UNCHANGED authVars
    ELSE SignUpFetchOrCreate(username, email)

TokenResp(username, code, status) ==
    [op |-> "token", username |-> username, code |-> code, status |-> status]

\* The status GetJWTokenView.post answers with.
TokenStatus(username, code) ==
    LET found == {u \in users : u.username = username}
    IN  IF found = {} THEN 404
        ELSE IF check_token(CHOOSE u \in found : TRUE, code) THEN 201
        ELSE 400

\* A faulty variant of GetJWTokenView.post: an unknown username is answered like a bad code.
TokenPost_NoNotFound(username, code) ==
    /\ resp' = TokenResp(username, code,
                         IF TokenStatus(username, code) = 404 THEN 400
                         ELSE TokenStatus(username, code))
    /\ UNCHANGED authVars

\* GetJWTokenView.post.
TokenPost(username, code) ==
    /\ resp' = TokenResp(username, code, TokenStatus(username, code))
    /\ UNCHANGED authVars

\* The value None of an absent field of a partial update.
None == "None"

\* ProfileSerializer(request.user, data, partial=True).is_valid(): a new username or
\* email must not be in use by another user.
ProfileSerializerValid(user, username, email) ==
    /\ username # None => \A u \in users \ {user} : u.username # username
    /\ email # None => \A u \in users \ {user} : u.email # email

\* UserViewSet.update_profile: PATCH /users/me by the authenticated user.
update_profile(user, username, email) ==
    LET patched == [user EXCEPT
                      !.username = IF username = None THEN @ ELSE username,
                      !.email = IF email = None THEN @ ELSE email]
    IN  IF ~ProfileSerializerValid(user, username, email)
        THEN /\ resp' = [op |-> "patch_me", uid |-> user.id, status |-> 400]
             /\ UNCHANGED authVars
        ELSE /\ users' = (users \ {user}) \cup {patched}
             /\ changedSince' =
                    IF patched.email # user.email
                    THEN changedSince \cup {m.code : m \in {x \in outbox : x.code.uid = user.id}}
                    ELSE changedSince
             /\ resp' = [op |-> "patch_me", uid |-> user.id, status |-> 200]
             /\ UNCHANGED <<nextUid, now, outbox>>

\* Time passes.
Tick ==
    /\ now < MaxTime
    /\ now' = now + 1
    /\ resp' = NoResp
    /\ UNCHANGED <<users, nextUid, outbox, changedSince>>

\* The User table an import of users.csv leaves: bulk_create stores its rows as
\* they are, without the serializers' validation.
ImportedUsers == {{}, {NewUser(1, "me", "x@ya")}, {NewUser(1, "al", "x@ya")}}

InitAuth ==
    /\ users \in ImportedUsers
    /\ nextUid = Cardinality(users) + 1
    /\ now = 0
    /\ outbox = {}
    /\ changedSince = {}
    /\ resp = NoResp
    /\ titles = {} /\ reviews = {} /\ comments = {}
    /\ nextRid = 1 /\ nextCid = 1
    /\ NoImport

NextAuth ==
    \/ \E username \in Usernames, email \in Emails : SignUpPost(username, email)
           /\ UNCHANGED <<reviewVars, importVars>>
    \/ \E username \in Usernames, code \in {m.code : m \in outbox} \cup {Garbage} :
           TokenPost(username, code) /\ UNCHANGED <<reviewVars, importVars>>
    \/ \E user \in users, username \in Usernames \cup {None}, email \in Emails \cup {None} :
           update_profile(user, username, email) /\ UNCHANGED <<reviewVars, importVars>>
    \/ Tick /\ UNCHANGED <<reviewVars, importVars>>

SpecAuth == InitAuth /\ [][NextAuth]_vars

(***************************************************************************)
(* The review and comment endpoints.                                       *)
(***************************************************************************)
\* request.user of a request without credentials.
AnonymousUser ==
    [id |-> 0, username |-> "", email |-> "", role |-> "anonymous", is_superuser |-> FALSE]

Member(id, username, role, super) ==
    [id |-> id, username |-> username, email |-> username, role |-> role, is_superuser |-> super]

\* The users of the review endpoints: two plain users, a moderator, an admin and a
\* superuser whose role is user.
Members ==
    {Member(1, "al", "user", FALSE), Member(2, "bo", "user", FALSE),
     Member(3, "mo", "moderator", FALSE), Member(4, "ad", "admin", FALSE),
     Member(5, "su", "user", TRUE)}

SAFE_METHODS == {"GET", "HEAD", "OPTIONS"}
DetailMethods == {"GET", "HEAD", "PATCH", "DELETE"}

\* The ids a path parameter takes: the titles 1 and 2 exist, 3 does not.
PathIds == {1, 2, 3}

\* The serializer's validation of a score: 0 is out of range, 5 and 7 are in it.
ValidScore(score) == score \in 1..10

\* SafeOrAuthorOrExceedingRoleOnly.has_permission.
has_permission(method, user) ==
    method \in SAFE_METHODS \/ user # AnonymousUser

\* SafeOrAuthorOrExceedingRoleOnly.has_object_permission.
has_object_permission(method, user, obj) ==
    \/ method \in SAFE_METHODS
    \/ obj.author = user.id
    \/ user.role \in {"moderator", "admin"}
    \/ user.is_superuser

\* A faulty variant of the permission class of a viewset: IsAuthenticatedOrReadOnly.
AuthenticatedOrReadOnly(method, user, obj) ==
    method \in SAFE_METHODS \/ user # AnonymousUser

\* ReviewViewSet.permission_classes, on an object.
ReviewObjectPermission(method, user, obj) == has_object_permission(method, user, obj)

\* CommentViewSet.permission_classes, on an object.
CommentObjectPermission(method, user, obj) == has_object_permission(method, user, obj)

\* The constraint of the Review table: one review per (title, author).
ReviewUnique(title, author) ==
    \A r \in reviews : ~(r.title = title /\ r.author = author)

\* ReviewViewSet.get_title: get_object_or_404(Title, id=title_id).
get_title(title_id) == {t \in titles : t = title_id}

\* A faulty variant of get_review: the review is looked up by its id alone.
get_review_any_title(title_id, review_id) == {r \in reviews : r.id = review_id}

\* CommentViewSet.get_review: get_object_or_404(Review, title__id=title_id, id=review_id).
get_review(title_id, review_id) ==
    {r \in reviews : r.title = title_id /\ r.id = review_id}

ReviewResp(action, method, user, title_id, review_id, status) ==
    [op |-> "review", action |-> action, method |-> method, user |-> user.id,
     title_id |-> title_id, review_id |-> review_id, comment_id |-> 0,
     status |-> status, body |-> <<>>, items |-> {}]

CommentResp(action, method, user, title_id, review_id, comment_id, status) ==
    [op |-> "comment", action |-> action, method |-> method, user |-> user.id,
     title_id |-> title_id, review_id |-> review_id, comment_id |-> comment_id,
     status |-> status, body |-> <<>>, items |-> {}]

\* GET /titles/{title_id}/reviews/: ReviewViewSet.get_queryset.
ReviewList(user, title_id) ==
    /\ resp' = IF get_title(title_id) = {}
               THEN ReviewResp("list", "GET", user, title_id, 0, 404)
               ELSE [ReviewResp("list", "GET", user, title_id, 0, 200) EXCEPT
                        !.items = {r.id : r \in {x \in reviews : x.title = title_id}}]
    /\ UNCHANGED reviewVars

\* A faulty variant of ReviewViewSet.perform_create: the body's author and title are kept.
ReviewSaveKwargs_FromBody(user, title_id, body) ==
    [author |-> IF body.author = 0 THEN user.id ELSE body.author,
     title |-> IF body.parent = 0 THEN title_id ELSE body.parent]

\* The author and the title ReviewViewSet.perform_create saves a review with, for a
\* body that names an author and a title of its own.
ReviewSaveKwargs(user, title_id, body) == [author |-> user.id, title |-> title_id]

\* POST /titles/{title_id}/reviews/: the permission check, the serializer's
\* validation, then ReviewViewSet.perform_create.
ReviewCreate(user, title_id, body) ==
    LET answer(status) ==
            [ReviewResp("create", "POST", user, title_id, 0, status) EXCEPT !.body = body]
        kw == ReviewSaveKwargs(user, title_id, body)
    IN  IF ~has_permission("POST", user)
        THEN /\ resp' = answer(401)
             /\ UNCHANGED reviewVars
        ELSE IF ~ValidScore(body.score)
        THEN /\ resp' = answer(400)
             /\ UNCHANGED reviewVars
        ELSE IF get_title(title_id) = {}
        THEN /\ resp' = answer(404)
             /\ UNCHANGED reviewVars
        ELSE IF ~ReviewUnique(kw.title, kw.author)
        THEN /\ resp' = answer(400)
             /\ UNCHANGED reviewVars
        ELSE /\ nextRid <= MaxReviews
             /\ reviews' = reviews \cup
                    {[id |-> nextRid, title |-> kw.title, author |-> kw.author,
                      score |-> body.score]}
             /\ nextRid' = nextRid + 1
             /\ resp' = [answer(201) EXCEPT !.review_id = nextRid]
             /\ UNCHANGED <<titles, comments, nextCid>>

\* GET, HEAD, PATCH or DELETE /titles/{title_id}/reviews/{review_id}/: the
\* permission check, get_object on get_queryset, the object permission check, then
\* the handler. A deleted review takes its comments with it.
ReviewDetail(method, user, title_id, review_id, score) ==
    LET answer(status) == ReviewResp("detail", method, user, title_id, review_id, status)
        found == {r \in reviews : r.title = title_id /\ r.id = review_id}
        obj == CHOOSE r \in found : TRUE
    IN  IF ~has_permission(method, user)
        THEN /\ resp' = answer(401)
             /\ UNCHANGED reviewVars
        ELSE IF get_title(title_id) = {} \/ found = {}
        THEN /\ resp' = answer(404)
             /\ UNCHANGED reviewVars
        ELSE IF ~ReviewObjectPermission(method, user, obj)
        THEN /\ resp' = answer(403)
             /\ UNCHANGED reviewVars
        ELSE IF method \in SAFE_METHODS
        THEN /\ resp' = answer(200)
             /\ UNCHANGED reviewVars
        ELSE IF method = "DELETE"
        THEN /\ reviews' = reviews \ {obj}
             /\ comments' = {c \in comments : c.review # obj.id}
             /\ resp' = answer(204)
             /\ UNCHANGED <<titles, nextRid, nextCid>>
        ELSE IF ~ValidScore(score)
        THEN /\ resp' = answer(400)
             /\ UNCHANGED reviewVars
        ELSE /\ reviews' = (reviews \ {obj}) \cup {[obj EXCEPT !.score = score]}
             /\ resp' = answer(200)
             /\ UNCHANGED <<titles, comments, nextRid, nextCid>>

\* GET /titles/{title_id}/reviews/{review_id}/comments/: CommentViewSet.get_queryset.
CommentList(user, title_id, review_id) ==
    /\ resp' = IF get_review(title_id, review_id) = {}
               THEN CommentResp("list", "GET", user, title_id, review_id, 0, 404)
               ELSE [CommentResp("list", "GET", user, title_id, review_id, 0, 200) EXCEPT
                        !.items = {c.id : c \in {x \in comments : x.review = review_id}}]
    /\ UNCHANGED reviewVars

\* The author and the review CommentViewSet.perform_create saves a comment with.
CommentSaveKwargs(user, review, body) == [author |-> user.id, review |-> review.id]

\* POST /titles/{title_id}/reviews/{review_id}/comments/: the permission check, the
\* serializer's validation, then CommentViewSet.perform_create.
CommentCreate(user, title_id, review_id, body) ==
    LET answer(status) ==
            [CommentResp("create", "POST", user, title_id, review_id, 0, status)
                EXCEPT !.body = body]
        found == get_review(title_id, review_id)
        kw == CommentSaveKwargs(user, CHOOSE r \in found : TRUE, body)
    IN  IF ~has_permission("POST", user)
        THEN /\ resp' = answer(401)
             /\ UNCHANGED reviewVars
        ELSE IF found = {}
        THEN /\ resp' = answer(404)
             /\ UNCHANGED reviewVars
        ELSE /\ nextCid <= MaxComments
             /\ comments' = comments \cup
                    {[id |-> nextCid, review |-> kw.review, author |-> kw.author,
                      text |-> "a"]}
             /\ nextCid' = nextCid + 1
             /\ resp' = [answer(201) EXCEPT !.comment_id = nextCid]
             /\ UNCHANGED <<titles, reviews, nextRid>>

\* GET, HEAD, PATCH or DELETE /titles/{title_id}/reviews/{review_id}/comments/{id}/.
CommentDetail(method, user, title_id, review_id, comment_id) ==
    LET answer(status) ==
            CommentResp("detail", method, user, title_id, review_id, comment_id, status)
        found == {c \in comments : c.review = review_id /\ c.id = comment_id}
        obj == CHOOSE c \in found : TRUE
    IN  IF ~has_permission(method, user)
        THEN /\ resp' = answer(401)
             /\ UNCHANGED reviewVars
        ELSE IF get_review(title_id, review_id) = {} \/ found = {}
        THEN /\ resp' = answer(404)
             /\ UNCHANGED reviewVars
        ELSE IF ~CommentObjectPermission(method, user, obj)
        THEN /\ resp' = answer(403)
             /\ UNCHANGED reviewVars
        ELSE IF method \in SAFE_METHODS
        THEN /\ resp' = answer(200)
             /\ UNCHANGED reviewVars
        ELSE IF method = "DELETE"
        THEN /\ comments' = comments \ {obj}
             /\ resp' = answer(204)
             /\ UNCHANGED <<titles, reviews, nextRid, nextCid>>
        ELSE /\ comments' = (comments \ {obj}) \cup {[obj EXCEPT !.text = "b"]}
             /\ resp' = answer(200)
             /\ UNCHANGED <<titles, reviews, nextRid, nextCid>>

\* The bodies of a create request: a score, and an author and a parent of the
\* body's own (0: the body names none).
Body(score, other) == [score |-> score, author |-> other, parent |-> other]

Requesters == users \cup {AnonymousUser}

\* The requesters of the specifications that create: anonymous, the two plain users
\* and, where they patch and delete too, the moderator.
Writers == {u \in Requesters : u.id \in {0, 1, 2}}
Editors == {u \in Requesters : u.id \in {0, 1, 2, 3}}

ReviewIds == 1..MaxReviews
CommentIds == 1..MaxComments

EmptyTables ==
    /\ users = Members
    /\ nextUid = Cardinality(Members) + 1
    /\ now = 0
    /\ outbox = {}
    /\ changedSince = {}
    /\ titles = {1, 2}
    /\ reviews = {}
    /\ comments = {}
    /\ nextRid = 1
    /\ nextCid = 1
    /\ NoImport
    /\ resp = NoResp

\* SpecReviews: the review endpoints, from empty tables.
NextReviews ==
    \/ \E user \in Editors, title_id \in PathIds : ReviewList(user, title_id)
           /\ UNCHANGED <<authVars, importVars>>
    \/ \E user \in Editors, title_id \in PathIds, other \in {0, 2} :
           ReviewCreate(user, title_id, Body(5, other))
           /\ UNCHANGED <<authVars, importVars>>
    \/ \E method \in {"PATCH", "DELETE"}, user \in Editors, title_id \in PathIds,
          review_id \in ReviewIds :
           ReviewDetail(method, user, title_id, review_id, 7)
           /\ UNCHANGED <<authVars, importVars>>

SpecReviews == EmptyTables /\ [][NextReviews]_vars

\* SpecThreads: listing and creating reviews and comments, from empty tables.
NextThreads ==
    \/ \E user \in Writers, title_id \in PathIds : ReviewList(user, title_id)
           /\ UNCHANGED <<authVars, importVars>>
    \/ \E user \in Writers, title_id \in PathIds, score \in {0, 5}, other \in {0, 2} :
           ReviewCreate(user, title_id, Body(score, other))
           /\ UNCHANGED <<authVars, importVars>>
    \/ \E user \in Writers, title_id \in PathIds, review_id \in ReviewIds :
           CommentList(user, title_id, review_id) /\ UNCHANGED <<authVars, importVars>>
    \/ \E user \in Writers, title_id \in PathIds, review_id \in ReviewIds, other \in {0, 2} :
           CommentCreate(user, title_id, review_id, Body(5, other))
           /\ UNCHANGED <<authVars, importVars>>

SpecThreads == EmptyTables /\ [][NextThreads]_vars

\* SpecPermissions: reading, patching and deleting by every requester, from tables
\* that hold a review and a comment of each plain user.
WrittenTables ==
    /\ users = Members
    /\ nextUid = Cardinality(Members) + 1
    /\ now = 0
    /\ outbox = {}
    /\ changedSince = {}
    /\ titles = {1, 2}
    /\ reviews = {[id |-> 1, title |-> 1, author |-> 1, score |-> 5],
                  [id |-> 2, title |-> 2, author |-> 2, score |-> 5]}
    /\ comments = {[id |-> 1, review |-> 1, author |-> 2, text |-> "a"],
                   [id |-> 2, review |-> 2, author |-> 1, text |-> "a"]}
    /\ nextRid = 3
    /\ nextCid = 3
    /\ NoImport
    /\ resp = NoResp

NextPermissions ==
    \/ \E method \in DetailMethods, user \in Requesters, title_id \in PathIds,
          review_id \in {1, 2} :
           ReviewDetail(method, user, title_id, review_id, 7)
           /\ UNCHANGED <<authVars, importVars>>
    \/ \E method \in DetailMethods, user \in Requesters, title_id \in PathIds,
          review_id \in {1, 2}, comment_id \in {1, 2} :
           CommentDetail(method, user, title_id, review_id, comment_id)
           /\ UNCHANGED <<authVars, importVars>>

SpecPermissions == WrittenTables /\ [][NextPermissions]_vars

(***************************************************************************)
(* Claims about the sign-up and token flow.                                *)
(***************************************************************************)
IssuedFor(username, code) ==
    \E m \in outbox : m.username = username /\ m.code = code

\* A sign-up answered 200 has mailed, to the submitted address, a code made now for
\* the user with the submitted username and email.
CodeIssued ==
    (resp.op = "signup" /\ resp.status = 200) =>
        \E u \in users, m \in outbox :
            /\ u.username = resp.username /\ u.email = resp.email
            /\ m.to = resp.email /\ m.username = resp.username
            /\ m.code.uid = u.id /\ m.code.email = u.email /\ m.code.ts = now

\* C1 as stated: a sign-up that succeeds mails a code for its user; an exchange with
\* the sign-up's username and that code answers 201 as long as the user's bound field
\* (the email) has not been changed since the code was issued, and 400 once it has.
C1_ValidUntilFieldChanges ==
    /\ CodeIssued
    /\ (resp.op = "token" /\ IssuedFor(resp.username, resp.code)) =>
           IF resp.code \in changedSince THEN resp.status = 400 ELSE resp.status = 201

\* C1 as amended: a sign-up that succeeds mails a code for its user; an exchange with
\* the sign-up's username and that code answers 201 exactly when the username still
\* names that user, the user's email is the one the code was issued for and the code
\* is no older than the timeout; otherwise it answers 404 when no user has the
\* username and 400 when one has.
C1_ValidWhileBoundStateHolds ==
    /\ CodeIssued
    /\ (resp.op = "token" /\ IssuedFor(resp.username, resp.code)) =>
           LET intact == \E u \in users : /\ u.id = resp.code.uid
                                          /\ u.username = resp.username
                                          /\ u.email = resp.code.email
               fresh == now - resp.code.ts <= PASSWORD_RESET_TIMEOUT
               named == \E u \in users : u.username = resp.username
           IN  /\ resp.status = 201 <=> (intact /\ fresh)
               /\ resp.status = 404 <=> ~named
               /\ resp.status \in {201, 400, 404}

\* A code issued to a user that a sign-up created (the import leaves at most user 1)
\* is exchanged for a token after time has passed.
C1_Witness ==
    /\ resp.op = "token" /\ resp.status = 201
    /\ IssuedFor(resp.username, resp.code)
    /\ now > resp.code.ts
    /\ \E u \in users : u.id = resp.code.uid /\ u.id = 2

\* C2: a token exchange answers 404 when no user has the username, whatever the
\* code; otherwise 400 when the code does not validate against that user; otherwise
\* 201; and it leaves the User table as it was.
C2_TokenOutcomes ==
    [][resp'.op = "token" =>
          LET named == {u \in users : u.username = resp'.username}
          IN  /\ users' = users
              /\ named = {} => resp'.status = 404
              /\ named # {} =>
                     resp'.status =
                         IF \E u \in named : check_token(u, resp'.code) THEN 201 ELSE 400]_vars

\* An issued, still valid code is presented with a username nobody has.
C2_Witness ==
    /\ resp.op = "token" /\ resp.status = 404
    /\ resp.code # Garbage
    /\ \E u \in users : check_token(u, resp.code)

\* C3: a sign-up with username "me" answers 400, creates no user and mails no code,
\* whatever the email and the User table, also when the table holds a user "me"
\* with that email.
C3_MeAlwaysRefused ==
    [][(resp'.op = "signup" /\ resp'.username = "me") =>
          /\ resp'.status = 400
          /\ users' = users
          /\ outbox' = outbox]_vars

\* A sign-up as "me" is refused while a user "me" with the submitted email exists.
C3_Witness ==
    /\ resp.op = "signup" /\ resp.username = "me" /\ resp.status = 400
    /\ \E u \in users : u.username = "me" /\ u.email = resp.email

UniqueUsers(us) ==
    \A u, v \in us : (u.username = v.username \/ u.email = v.email \/ u.id = v.id) => u = v

\* What C4 says of one sign-up step, for the usernames in names.
CreateOrFetchStep(names) ==
    resp'.op = "signup" =>
        LET un == resp'.username
            em == resp'.email
            pair == {u \in users : u.username = un /\ u.email = em}
            unUsed == \E u \in users : u.username = un
            emUsed == \E u \in users : u.email = em
        IN  /\ (un \in names /\ pair # {}) =>
                   /\ resp'.status = 200
                   /\ users' = users
                   /\ \E u \in pair, m \in outbox' :
                          m.to = em /\ m.code.uid = u.id /\ m.code.ts = now
            /\ (un \in names /\ ~unUsed /\ ~emUsed) =>
                   /\ resp'.status = 200
                   /\ \E u \in users' \ users :
                          /\ users' = users \cup {u}
                          /\ u.username = un /\ u.email = em
                          /\ \E m \in outbox' : m.to = em /\ m.code.uid = u.id
            /\ (unUsed # emUsed) =>
                   /\ resp'.status = 400
                   /\ users' = users
                   /\ outbox' = outbox
            /\ UniqueUsers(users')

\* C4 as stated: a sign-up fetches the user with exactly the submitted pair and mails
\* it a code; creates exactly one user when neither value is in use; answers 400 and
\* does nothing when exactly one value is in use; and no two users ever share a
\* username or an email.
C4_CreateOrFetch == [][CreateOrFetchStep(Usernames)]_vars

\* C4 as amended: the same, for every username other than the reserved "me".
C4_CreateOrFetchUnlessMe == [][CreateOrFetchStep(Usernames \ {"me"})]_vars

\* A second user has been created by a sign-up, beside one fetched or created before.
C4_Witness ==
    /\ resp.op = "signup" /\ resp.status = 200
    /\ Cardinality(users) = 2
    /\ \E u \in users : u.id = 2 /\ u.username = resp.username /\ u.email = resp.email

(***************************************************************************)
(* Claims about the review and comment endpoints.                          *)
(***************************************************************************)
\* C5: after every review request each (title, author) pair has at most one review,
\* and a create by a requester who already has a review of the title named in the
\* path answers 400 and leaves the Review table as it was.
C5_OneReviewPerTitleAndAuthor ==
    [][/\ \A r1, r2 \in reviews' :
              (r1.title = r2.title /\ r1.author = r2.author) => r1 = r2
       /\ (/\ resp'.op = "review" /\ resp'.action = "create"
           /\ \E r \in reviews : r.title = resp'.title_id /\ r.author = resp'.user) =>
              /\ resp'.status = 400
              /\ reviews' = reviews]_vars

\* A second review of a title by its reviewer is refused while another user's review
\* of the same title exists.
C5_Witness ==
    /\ resp.op = "review" /\ resp.action = "create" /\ resp.status = 400
    /\ \E r \in reviews : r.title = resp.title_id /\ r.author = resp.user
    /\ \E r \in reviews : r.title = resp.title_id /\ r.author # resp.user

\* The resource a detail request addresses, in the tables as they are.
Addressed(r) ==
    IF r.op = "review"
    THEN {x \in reviews : x.id = r.review_id /\ x.title = r.title_id}
    ELSE {x \in comments :
              /\ x.id = r.comment_id /\ x.review = r.review_id
              /\ \E y \in reviews : y.id = r.review_id /\ y.title = r.title_id}

\* C6: on an existing review or comment, GET and HEAD are allowed for every
\* requester, anonymous too; PATCH and DELETE are allowed exactly for the resource's
\* author, a moderator, an admin and a superuser; an authenticated requester who is
\* none of these is answered 403; and a refused request changes neither table.
C6_SafeOrAuthorOrRole ==
    [][(resp'.op \in {"review", "comment"} /\ resp'.action = "detail") =>
          \A obj \in Addressed(resp') :
              LET who == CHOOSE u \in Members \cup {AnonymousUser} : u.id = resp'.user
                  entitled == \/ obj.author = who.id /\ who.id # 0
                              \/ who.role = "moderator"
                              \/ who.role = "admin"
                              \/ who.is_superuser
                  allowed == resp'.status \in {200, 204}
              IN  /\ resp'.method \in {"GET", "HEAD", "OPTIONS"} => allowed
                  /\ resp'.method \in {"PATCH", "DELETE"} => (allowed <=> entitled)
                  /\ (resp'.method \in {"PATCH", "DELETE"} /\ who.id # 0 /\ ~entitled) =>
                         resp'.status = 403
                  /\ ~allowed => (reviews' = reviews /\ comments' = comments)]_vars

\* A plain user is refused the deletion of another user's comment.
C6_Witness ==
    /\ resp.op = "comment" /\ resp.action = "detail"
    /\ resp.method = "DELETE" /\ resp.status = 403
    /\ resp.user = 1
    /\ \E c \in Addressed(resp) : c.author = 2

\* C7: a created review has the requester as author and the path's title as title,
\* a created comment has the requester as author and the path's review as review,
\* whatever the body names; a create by an authenticated requester with a valid body
\* answers 404 when the path's title does not exist, or (for a comment) when no
\* review with the path's review id belongs to the path's title; no create with a
\* missing parent adds a row; and a comment listing answers 404 by the same rule and
\* otherwise lists the comments of that review.
C7_AuthorAndParentFromRequest ==
    [][/\ (resp'.op = "review" /\ resp'.action = "create") =>
              /\ resp'.title_id \notin titles =>
                     /\ reviews' = reviews
                     /\ (resp'.user # 0 /\ resp'.body.score \in 1..10) => resp'.status = 404
              /\ resp'.status = 201 =>
                     \E r \in reviews' \ reviews :
                         /\ reviews' = reviews \cup {r}
                         /\ r.id = resp'.review_id
                         /\ r.author = resp'.user
                         /\ r.title = resp'.title_id
              /\ resp'.status # 201 => reviews' = reviews
       /\ (resp'.op = "comment" /\ resp'.action \in {"create", "list"}) =>
              LET parent == {r \in reviews : r.id = resp'.review_id /\ r.title = resp'.title_id}
              IN  /\ parent = {} =>
                         /\ comments' = comments
                         /\ resp'.user # 0 => resp'.status = 404
                  /\ (resp'.action = "create" /\ resp'.status = 201) =>
                         /\ parent # {}
                         /\ \E c \in comments' \ comments :
                                /\ comments' = comments \cup {c}
                                /\ c.id = resp'.comment_id
                                /\ c.author = resp'.user
                                /\ c.review = resp'.review_id
                  /\ (resp'.action = "create" /\ resp'.status # 201) => comments' = comments
                  /\ (resp'.action = "list" /\ parent # {}) =>
                         /\ resp'.status = 200
                         /\ resp'.items = {c.id : c \in {x \in comments : x.review = resp'.review_id}}]_vars

\* A comment is refused with 404 for a review that exists under another, existing
\* title, by a requester whose body names an author and a parent of its own.
C7_Witness ==
    /\ resp.op = "comment" /\ resp.action = "create" /\ resp.status = 404
    /\ resp.title_id \in titles
    /\ \E r \in reviews : r.id = resp.review_id /\ r.title # resp.title_id
    /\ resp.body.author # 0 /\ resp.body.author # resp.user

(***************************************************************************)
(* Claims about the CSV importer.                                          *)
(***************************************************************************)
\* The command line's files, or the registered files in the order the claim gives.
ExpectedOrder ==
    IF argv # <<>> THEN argv
    ELSE <<"users.csv", "category.csv", "genre.csv", "titles.csv", "review.csv",
           "comments.csv">>

\* The rows with a foreign-key column that holds the id of no row of the table it
\* refers to.
DanglingRows(csv_file) ==
    LET file == fs[csv_file]
        model == FILE_MODEL[csv_file]
    IN  {i \in 1..Len(file.rows) :
            \E j \in 1..Len(file.header) :
                LET to == RemoteModel(model, KwargKey(file.header[j]))
                IN  to # "" /\ \A row \in db[to] : row[S_id] # Raw(file.rows[i][j])}

\* C8: the import of a file with a row, at any position, whose foreign-key column
\* holds an id that does not exist ends the command with DoesNotExist and adds no
\* row of that file to any table, the rows before the bad one included.
C8_NoPartialImport ==
    [][(/\ phase = "running"
        /\ Files[pc] \in DOMAIN FILE_MODEL
        /\ DanglingRows(Files[pc]) # {}) =>
           /\ phase' = "failed"
           /\ err' = "DoesNotExist"
           /\ db' = db
           /\ imported' = imported]_vars

\* review.csv has failed on its last row, after a row whose keys all exist.
C8_Witness ==
    /\ phase = "failed" /\ err = "DoesNotExist"
    /\ Files[pc] = "review.csv"
    /\ Len(fs["review.csv"].rows) >= 2
    /\ DanglingRows("review.csv") = {Len(fs["review.csv"].rows)}
    /\ db["Title"] # {} /\ db["User"] # {}
    /\ db["Review"] = {}

\* C9: the files are imported one at a time in the order given, or in the order
\* users, category, genre, titles, review, comments when none is given; each step
\* either commits the whole next file and nothing else, or fails (on a missing
\* foreign key, or on a name that is not registered) and leaves every table as the
\* earlier files left it; after a failure nothing more is imported.
C9_InOrderUntilFirstFailure ==
    [][LET k == Len(imported) + 1
           next == ExpectedOrder[k]
       IN  /\ phase = "running"
           /\ k <= Len(ExpectedOrder)
           /\ imported' \in {imported, Append(imported, next)}
           /\ (next \notin DOMAIN FILE_MODEL \/ DanglingRows(next) # {}) =>
                  imported' = imported
           /\ imported' = imported =>
                  /\ phase' = "failed"
                  /\ db' = db
           /\ imported' # imported =>
                  LET file == fs[next]
                      rows == {RowKwargs(FILE_MODEL[next], file.header, file.rows[i]) :
                                  i \in 1..Len(file.rows)}
                  IN  /\ db' = [db EXCEPT ![FILE_MODEL[next]] = @ \cup rows]
                      /\ rows \cap db[FILE_MODEL[next]] = {}
                      /\ phase' = IF k = Len(ExpectedOrder) THEN "done" ELSE "running"]_vars

\* The command has stopped at an unregistered name in second place, with the first
\* file committed.
C9_Witness ==
    /\ phase = "failed" /\ err = "KeyError"
    /\ imported = <<"users.csv">>
    /\ db["User"] # {}
    /\ db["Category"] = {}

EndsWithId(field) ==
    Len(field) >= 3 /\ SubSeq(field, Len(field) - 2, Len(field)) = S__id

\* C10 as stated: a column is a foreign key exactly when its name ends in "_id", and
\* is then filed under the name without the suffix; every other column is filed
\* under its full name with its value unchanged.
C10_ForeignKeyIffSuffix ==
    col.applied =>
        /\ col.fk <=> EndsWithId(col.field)
        /\ EndsWithId(col.field) =>
               col.key = SubSeq(col.field, 1, Len(col.field) - 3)
        /\ ~EndsWithId(col.field) => (col.key = col.field /\ col.passed = col.value)

\* C10 as amended: a column is filed under its name without its last three
\* characters when the name contains "_id" anywhere, and under its name otherwise;
\* it is a foreign key exactly when the name it is filed under is one of author,
\* review, title, category, genre; the value is handed on as it is, as the id to
\* look up or as the field's value.
C10_ForeignKeyIffListed ==
    col.applied =>
        /\ col.key = IF \E i \in 1..Len(col.field) :
                             /\ i + 2 <= Len(col.field)
                             /\ col.field[i] = "_" /\ col.field[i + 1] = "i"
                             /\ col.field[i + 2] = "d"
                     THEN [i \in 1..(Len(col.field) - 3) |-> col.field[i]]
                     ELSE col.field
        /\ col.fk <=> col.key \in {S_author, S_review, S_title, S_category, S_genre}
        /\ col.passed = col.value

\* A column named author, without a suffix, has been taken for a foreign key.
C10_Witness ==
    /\ col.applied
    /\ col.field = S_author
    /\ col.fk /\ col.key = S_author

=============================================================================
